---- MODULE Spec2Model ----
(***************************************************************************)
(* Model of the LvpStack deployment topology (lib/lvp-stack.ts): the       *)
(* declared template (parameters, resources, references, permissions,     *)
(* outputs) and the operations the provisioning engine and the managed     *)
(* services perform on it: deploy, delete, webhook-triggered build runs,   *)
(* rolling updates of the service, and packet admission by the security    *)
(* groups.                                                                 *)
(***************************************************************************)
EXTENDS Integers, Sequences, FiniteSets, TLC

VARIABLES
    params,      \* the parameter values supplied to the current deployment
    status,      \* "none" | "rejected" | "in_progress" | "failed" | "complete"
    stack,       \* logical id -> physical resource created by the deployment
    registry,    \* the account's image registry named 'lvp-example'
    logGroups,   \* names of the log groups that exist in the account
    outputs,     \* the stack outputs of a completed deployment
    fresh,       \* the current deployment started with none of the resources present
    deploys,     \* number of deployments started
    deletes,     \* number of stack deletions done
    event,       \* the last webhook event delivered to the build project
    build,       \* the current build run
    svc,         \* the service's deployment state (revisions and task counts)
    packet,      \* the packet in flight through the network
    received     \* what the application container has received

vars == <<params, status, stack, registry, logGroups, outputs, fresh, deploys,
          deletes, event, build, svc, packet, received>>

\* ------------------------------------------------------------------ bounds
MaxDeploys == 2
MaxBranchLen == 3
MaxBuilds == 2

\* --------------------------------------------------------- text as sequences
\* Branch names, refs and patterns are sequences of one-character strings.
Alphabet == {"v", "."}

RECURSIVE SeqsUpTo(_, _)
SeqsUpTo(S, n) ==
    IF n = 0 THEN {<<>>}
    ELSE LET shorter == SeqsUpTo(S, n - 1)
         IN  shorter \cup {Append(s, c) : s \in {t \in shorter : Len(t) = n - 1}, c \in S}

Main == <<"m", "a", "i", "n">>

\* ------------------------------------------------------------- parameters
\* The declarations with GitHubBranch left without a default.
Parameters_BranchRequired ==
    [ConnectionArn |-> [type |-> "String", hasDefault |-> FALSE, default |-> <<>>],
     GitHubOwner   |-> [type |-> "String", hasDefault |-> TRUE,
                        default |-> <<"kobashi-yoshizumi">>],
     GitHubRepo    |-> [type |-> "String", hasDefault |-> TRUE,
                        default |-> <<"lvp-example">>],
     GitHubBranch  |-> [type |-> "String", hasDefault |-> FALSE, default |-> <<>>]]

\* lib/lvp-stack.ts 16-32: the CfnParameter declarations.
Parameters ==
    [ConnectionArn |-> [type |-> "String", hasDefault |-> FALSE, default |-> <<>>],
     GitHubOwner   |-> [type |-> "String", hasDefault |-> TRUE,
                        default |-> <<"kobashi-yoshizumi">>],
     GitHubRepo    |-> [type |-> "String", hasDefault |-> TRUE,
                        default |-> <<"lvp-example">>],
     GitHubBranch  |-> [type |-> "String", hasDefault |-> TRUE, default |-> Main]]

ParamNames == DOMAIN Parameters

\* README.md 16-21: the --parameters options of the documented deploy command.
ReadmeParameters == {"ConnectionArn", "GitHubOwner", "GitHubRepo", "GitHubBranch"}

\* A connection ARN: arn:aws:<service>:ap-northeast-1:<account>:connection/<id>.
\* README.md 18 documents the codestar-connections form, the parameter's
\* description (lvp-stack.ts 19) the codeconnections form.
ConnectionArns ==
    {<<"arn:aws:", svcName, ":ap-northeast-1:111122223333:connection/", id>> :
        svcName \in {"codeconnections", "codestar-connections"}, id \in {"c-1"}}

ArnService(arn) == arn[2]

\* A name git accepts for a branch: not empty, no leading or trailing dot, no
\* two dots in a row.
ValidBranch(b) ==
    /\ Len(b) > 0
    /\ b[1] # "." /\ b[Len(b)] # "."
    /\ \A i \in 1..(Len(b) - 1) : ~(b[i] = "." /\ b[i + 1] = ".")

BranchNames == {Main} \cup {b \in SeqsUpTo(Alphabet, MaxBranchLen) : ValidBranch(b)}

\* What a deployment passes for a parameter it leaves out.
Omitted == <<"<omitted>">>

\* The ways a deployment may supply the parameters: each one a value or left out.
Supplied(branches) ==
    [ConnectionArn : ConnectionArns \cup {Omitted},
     GitHubOwner   : {<<"acme">>, Omitted},
     GitHubRepo    : {<<"lvp-example">>, Omitted},
     GitHubBranch  : branches \cup {Omitted}]

NoParams == [n \in ParamNames |-> Omitted]

\* Parameters left without a value: not supplied and declared without a default.
Unresolved(p) == {n \in ParamNames : p[n] = Omitted /\ ~Parameters[n].hasDefault}

\* Parameter resolution (valueAsString): the supplied value, else the default.
Resolved(p, n) == IF p[n] # Omitted THEN p[n] ELSE Parameters[n].default

\* ---------------------------------------------------------------- template
\* The environment the stack is deployed into (README.md 18: region and account
\* of the documented connection ARN).
Account == "111122223333"
Region == "ap-northeast-1"

\* lib/lvp-stack.ts 35-39
vpc == [maxAzs |-> 2, natGateways |-> 0, subnetType |-> "PUBLIC"]

\* The registry declared with the log groups' removal policy.
repo_Destroy == [repositoryName |-> "lvp-example", imageScanOnPush |-> TRUE,
                 removalPolicy |-> "DESTROY"]

\* lib/lvp-stack.ts 42-46
repo == [repositoryName |-> "lvp-example", imageScanOnPush |-> TRUE,
         removalPolicy |-> "RETAIN"]

repositoryArn == <<"arn:aws:ecr:", Region, Account, "repository/", repo.repositoryName>>
repositoryUri == <<Account, ".dkr.ecr.", Region, ".amazonaws.com/", repo.repositoryName>>

\* lib/lvp-stack.ts 49-52
cluster == [vpc |-> "Vpc", clusterName |-> "lvp-cluster"]

\* lib/lvp-stack.ts 54-63
taskRole == [assumedBy |-> "ecs-tasks.amazonaws.com", managedPolicies |-> {}]
execRole == [assumedBy |-> "ecs-tasks.amazonaws.com",
             managedPolicies |-> {"service-role/AmazonECSTaskExecutionRolePolicy"}]

roleArn(id) == <<"arn:aws:iam::", Account, ":role/", id>>

\* lib/lvp-stack.ts 65-69
logGroup == [logGroupName |-> "/ecs/lvp-example", retentionDays |-> 7,
             removalPolicy |-> "DESTROY"]

\* lib/lvp-stack.ts 184-188
cbLogGroup == [logGroupName |-> "/codebuild/lvp-example-build", retentionDays |-> 7,
               removalPolicy |-> "DESTROY"]

logGroupArn(lg) == <<"arn:aws:logs:", Region, Account, "log-group:", lg.logGroupName>>

\* lib/lvp-stack.ts 71-77
taskDef == [family |-> "lvp-example-task", cpu |-> 512, memoryLimitMiB |-> 1024,
            taskRole |-> "TaskRole", executionRole |-> "ExecutionRole"]

\* lib/lvp-stack.ts 79-85
container == [containerName |-> "web",
              image |-> [repository |-> repo.repositoryName, tag |-> "latest"],
              logGroup |-> "AppLogGroup", streamPrefix |-> "app",
              containerPort |-> 8501]

\* lib/lvp-stack.ts 88-93
albSg == [vpc |-> "Vpc", allowAllOutbound |-> TRUE,
          ingress |-> {[peer |-> "0.0.0.0/0", protocol |-> "tcp", port |-> 80]}]

\* The service's group opened to every address instead of to the balancer's group.
svcSg_OpenToInternet ==
    [vpc |-> "Vpc", allowAllOutbound |-> TRUE,
     ingress |-> {[peer |-> "0.0.0.0/0", protocol |-> "tcp", port |-> 8501]}]

\* lib/lvp-stack.ts 95-100
svcSg == [vpc |-> "Vpc", allowAllOutbound |-> TRUE,
          ingress |-> {[peer |-> "AlbSg", protocol |-> "tcp", port |-> 8501]}]

\* The service declared with a deployment circuit breaker that rolls back.
service_WithRollback ==
    [cluster |-> "Cluster", serviceName |-> "lvp-service",
     taskDefinition |-> "TaskDef", desiredCount |-> 1,
     assignPublicIp |-> TRUE, securityGroups |-> {"SvcSg"},
     subnetType |-> "PUBLIC",
     minHealthyPercent |-> 50, maxHealthyPercent |-> 200,
     circuitBreakerRollback |-> TRUE]

\* lib/lvp-stack.ts 103-113 (no circuitBreaker and no deploymentController is
\* declared: the service uses the managed rolling update without rollback)
service == [cluster |-> "Cluster", serviceName |-> "lvp-service",
            taskDefinition |-> "TaskDef", desiredCount |-> 1,
            assignPublicIp |-> TRUE, securityGroups |-> {"SvcSg"},
            subnetType |-> "PUBLIC",
            minHealthyPercent |-> 50, maxHealthyPercent |-> 200,
            circuitBreakerRollback |-> FALSE]

\* lib/lvp-stack.ts 116-121
alb == [vpc |-> "Vpc", internetFacing |-> TRUE, securityGroup |-> "AlbSg",
        loadBalancerName |-> "lvp-alb"]

\* lib/lvp-stack.ts 122
listener == [loadBalancer |-> "Alb", protocol |-> "tcp", port |-> 80, open |-> TRUE,
             defaultTargetGroup |-> "EcsTg"]

\* lib/lvp-stack.ts 123-131
targetGroup == [vpc |-> "Vpc", port |-> 8501, targets |-> {"Service"},
                healthCheckPath |-> "/", healthyHttpCodes |-> "200",
                healthCheckInterval |-> 20]

\* lib/lvp-stack.ts 139: Repository.grantPullPush(grantee) allows the pull and
\* the push actions on the repository and the token action on every resource.
grantPullPush ==
    {[actions |-> {"ecr:BatchCheckLayerAvailability", "ecr:GetDownloadUrlForLayer",
                   "ecr:BatchGetImage", "ecr:CompleteLayerUpload",
                   "ecr:UploadLayerPart", "ecr:InitiateLayerUpload", "ecr:PutImage"},
      resources |-> {repositoryArn}],
     [actions |-> {"ecr:GetAuthorizationToken"}, resources |-> {<<"*">>}]}

\* The connection statement granted on every resource.
connectionStatement_Wildcard(p) ==
    [actions |-> {"codeconnections:UseConnection", "codeconnections:GetConnection",
                  "codeconnections:GetConnectionToken"},
     resources |-> {<<"*">>}]

\* lib/lvp-stack.ts 172-181: the connection statement of the build role.
connectionStatement(p) ==
    [actions |-> {"codeconnections:UseConnection", "codeconnections:GetConnection",
                  "codeconnections:GetConnectionToken"},
     resources |-> {Resolved(p, "ConnectionArn")}]

\* lib/lvp-stack.ts 134-194: the build role and the statements of its policy.
cbRole(p) ==
    [assumedBy |-> "codebuild.amazonaws.com",
     statements |->
        grantPullPush
        \cup {[actions |-> {"ecs:DescribeClusters", "ecs:DescribeServices",
                            "ecs:DescribeTaskDefinition", "ecs:RegisterTaskDefinition",
                            "ecs:UpdateService"},
               resources |-> {<<"*">>}],
              [actions |-> {"iam:PassRole"},
               resources |-> {roleArn("TaskRole"), roleArn("ExecutionRole")}],
              [actions |-> {"ecr:GetAuthorizationToken"}, resources |-> {<<"*">>}],
              connectionStatement(p),
              [actions |-> {"logs:CreateLogStream", "logs:PutLogEvents",
                            "logs:DescribeLogStreams", "logs:CreateLogGroup"},
               resources |-> {logGroupArn(cbLogGroup),
                              Append(logGroupArn(cbLogGroup), ":*")}]}]

RefsHeads == <<"r", "e", "f", "s", "/", "h", "e", "a", "d", "s", "/">>
RefsTags == <<"r", "e", "f", "s", "/", "t", "a", "g", "s", "/">>

\* lib/lvp-stack.ts 205-209: one filter group, PUSH events whose head ref matches
\* the regular expression ^refs/heads/<GitHubBranch>$ (the anchors are kept
\* apart from the body of the pattern).
webhookFilters(p) ==
    {[eventAction |-> "PUSH",
      headRef |-> [anchoredStart |-> TRUE,
                   body |-> RefsHeads \o Resolved(p, "GitHubBranch"),
                   anchoredEnd |-> TRUE]]}

\* The environment variables with the registry's name given as the task family.
environmentVariables_FamilyIsRepoName ==
    [IMAGE_REPO_NAME    |-> repo.repositoryName,
     ECS_CLUSTER_NAME   |-> cluster.clusterName,
     ECS_SERVICE_NAME   |-> service.serviceName,
     TASK_FAMILY        |-> repo.repositoryName,
     CONTAINER_NAME     |-> container.containerName,
     AWS_DEFAULT_REGION |-> Region,
     AWS_ACCOUNT_ID     |-> Account]

\* lib/lvp-stack.ts 219-227: what the build project hands to its build runs.
environmentVariables ==
    [IMAGE_REPO_NAME    |-> repo.repositoryName,
     ECS_CLUSTER_NAME   |-> cluster.clusterName,
     ECS_SERVICE_NAME   |-> service.serviceName,
     TASK_FAMILY        |-> taskDef.family,
     CONTAINER_NAME     |-> container.containerName,
     AWS_DEFAULT_REGION |-> Region,
     AWS_ACCOUNT_ID     |-> Account]

\* lib/lvp-stack.ts 197-235: the build project, Source.Auth override included.
project(p) ==
    [projectName |-> "lvp-example-build",
     role |-> "CodeBuildRole",
     source |-> [owner |-> Resolved(p, "GitHubOwner"),
                 repo |-> Resolved(p, "GitHubRepo"),
                 branchOrRef |-> Resolved(p, "GitHubBranch"),
                 webhook |-> TRUE,
                 webhookFilters |-> webhookFilters(p),
                 reportBuildStatus |-> TRUE,
                 auth |-> [type |-> "CODECONNECTIONS",
                           resource |-> Resolved(p, "ConnectionArn")]],
     privileged |-> TRUE,
     logGroup |-> "CodeBuildLogGroup",
     buildSpec |-> "buildspec.yml",
     environmentVariables |-> environmentVariables]

\* The logical ids the stack declares (one per construct of lib/lvp-stack.ts).
Resources ==
    {"Vpc", "EcrRepo", "Cluster", "TaskRole", "ExecutionRole", "AppLogGroup",
     "TaskDef", "AlbSg", "SvcSg", "Service", "Alb", "Http", "EcsTg",
     "CodeBuildRole", "CodeBuildLogGroup", "AppBuild"}

\* The type of each declared resource.
ResourceType ==
    [Vpc |-> "ec2.Vpc", EcrRepo |-> "ecr.Repository", Cluster |-> "ecs.Cluster",
     TaskRole |-> "iam.Role", ExecutionRole |-> "iam.Role",
     AppLogGroup |-> "logs.LogGroup", TaskDef |-> "ecs.FargateTaskDefinition",
     AlbSg |-> "ec2.SecurityGroup", SvcSg |-> "ec2.SecurityGroup",
     Service |-> "ecs.FargateService", Alb |-> "elbv2.ApplicationLoadBalancer",
     Http |-> "elbv2.ApplicationListener", EcsTg |-> "elbv2.ApplicationTargetGroup",
     CodeBuildRole |-> "iam.Role", CodeBuildLogGroup |-> "logs.LogGroup",
     AppBuild |-> "codebuild.Project"]

\* What each resource refers to: it is created after everything it refers to.
DependsOn ==
    [Vpc |-> {}, EcrRepo |-> {}, Cluster |-> {"Vpc"},
     TaskRole |-> {}, ExecutionRole |-> {}, AppLogGroup |-> {},
     TaskDef |-> {"TaskRole", "ExecutionRole", "EcrRepo", "AppLogGroup"},
     AlbSg |-> {"Vpc"}, SvcSg |-> {"Vpc", "AlbSg"},
     Service |-> {"Cluster", "TaskDef", "SvcSg", "Vpc", "EcsTg", "Http"},
     Alb |-> {"Vpc", "AlbSg"}, Http |-> {"Alb", "EcsTg"}, EcsTg |-> {"Vpc"},
     CodeBuildRole |-> {"EcrRepo", "TaskRole", "ExecutionRole", "CodeBuildLogGroup"},
     CodeBuildLogGroup |-> {},
     AppBuild |-> {"CodeBuildRole", "CodeBuildLogGroup", "EcrRepo", "Cluster",
                   "Service"}]

\* The removal policy of each resource; DESTROY is the engine's default.
RemovalPolicy(r) ==
    CASE r = "EcrRepo" -> repo.removalPolicy
      [] r = "AppLogGroup" -> logGroup.removalPolicy
      [] r = "CodeBuildLogGroup" -> cbLogGroup.removalPolicy
      [] OTHER -> "DESTROY"

\* --------------------------------------------------------------- deployment
ImageTags == {container.image.tag}

\* DNS names the platform may generate for the load balancer.
AlbDnsNames == {"lvp-alb-1.elb.amazonaws.com", "lvp-alb-2.elb.amazonaws.com"}

\* The service's tasks: target is the task-definition revision being deployed,
\* latest the last one registered, steady the last one that became steady; cur
\* and pending count the target revision's healthy and starting tasks, old and
\* oldPending those of earlier revisions.
NoService == [exists |-> FALSE, target |-> 0, latest |-> 0, steady |-> 0,
              old |-> 0, oldPending |-> 0, cur |-> 0, pending |-> 0]

\* The physical resource the engine creates for logical id r, under the
\* parameter values p; dns is the name the platform generates for the balancer.
Physical(r, p, dns) ==
    CASE r = "Vpc" -> [type |-> ResourceType[r], props |-> vpc]
      [] r = "EcrRepo" ->
            [type |-> ResourceType[r], repositoryName |-> repo.repositoryName,
             repositoryUri |-> repositoryUri, arn |-> repositoryArn]
      [] r = "Cluster" -> [type |-> ResourceType[r], clusterName |-> cluster.clusterName]
      [] r = "TaskRole" -> [type |-> ResourceType[r], arn |-> roleArn(r), statements |-> {}]
      [] r = "ExecutionRole" ->
            [type |-> ResourceType[r], arn |-> roleArn(r), statements |-> {}]
      [] r = "AppLogGroup" ->
            [type |-> ResourceType[r], logGroupName |-> logGroup.logGroupName]
      [] r = "CodeBuildLogGroup" ->
            [type |-> ResourceType[r], logGroupName |-> cbLogGroup.logGroupName]
      [] r = "TaskDef" ->
            [type |-> ResourceType[r], family |-> taskDef.family,
             taskRoleArn |-> roleArn(taskDef.taskRole),
             executionRoleArn |-> roleArn(taskDef.executionRole),
             container |-> container]
      [] r = "AlbSg" -> [type |-> ResourceType[r], ingress |-> albSg.ingress]
      [] r = "SvcSg" -> [type |-> ResourceType[r], ingress |-> svcSg.ingress]
      [] r = "Service" ->
            [type |-> ResourceType[r], serviceName |-> service.serviceName,
             cluster |-> cluster.clusterName, family |-> taskDef.family,
             securityGroups |-> service.securityGroups,
             assignPublicIp |-> service.assignPublicIp]
      [] r = "Alb" ->
            [type |-> ResourceType[r], loadBalancerName |-> alb.loadBalancerName,
             scheme |-> IF alb.internetFacing THEN "internet-facing" ELSE "internal",
             securityGroup |-> alb.securityGroup, dnsName |-> dns]
      [] r = "Http" ->
            [type |-> ResourceType[r], port |-> listener.port,
             forwardTo |-> listener.defaultTargetGroup]
      [] r = "EcsTg" ->
            [type |-> ResourceType[r], port |-> targetGroup.port,
             targets |-> targetGroup.targets]
      [] r = "CodeBuildRole" ->
            [type |-> ResourceType[r], arn |-> roleArn(r),
             statements |-> cbRole(p).statements]
      [] r = "AppBuild" ->
            [type |-> ResourceType[r], projectName |-> project(p).projectName,
             source |-> project(p).source,
             environmentVariables |-> project(p).environmentVariables]

created == DOMAIN stack

\* The fixed physical name r would take is already taken in the account.
NameTaken(r) ==
    CASE r = "EcrRepo" -> registry.exists
      [] r = "AppLogGroup" -> logGroup.logGroupName \in logGroups
      [] r = "CodeBuildLogGroup" -> cbLogGroup.logGroupName \in logGroups
      [] OTHER -> FALSE

\* Everything r refers to has been created.
Ready(r) == r \notin created /\ DependsOn[r] \subseteq created

\* The service is created once it is steady: desiredCount tasks of the task
\* definition run, which needs the container's image in the registry.
CanStabilise(r) ==
    r = "Service" => (registry.exists /\ container.image.tag \in registry.images)

\* The outputs with the cluster's and the service's names exchanged.
Outputs_NamesSwapped(s) ==
    [AlbDns               |-> <<s["Alb"].dnsName>>,
     EcrRepoUri           |-> s["EcrRepo"].repositoryUri,
     CodeBuildProjectName |-> <<s["AppBuild"].projectName>>,
     EcsClusterName       |-> <<s["Service"].serviceName>>,
     EcsServiceName       |-> <<s["Cluster"].clusterName>>]

\* lib/lvp-stack.ts 238-242: the declared outputs, over the created resources.
Outputs(s) ==
    [AlbDns               |-> <<s["Alb"].dnsName>>,
     EcrRepoUri           |-> s["EcrRepo"].repositoryUri,
     CodeBuildProjectName |-> <<s["AppBuild"].projectName>>,
     EcsClusterName       |-> <<s["Cluster"].clusterName>>,
     EcsServiceName       |-> <<s["Service"].serviceName>>]

NoOutputs == <<>>

\* `cdk deploy --parameters ...`: the engine resolves the parameters; with one
\* unresolved it rejects the deployment and creates nothing.
StartDeploy(p) ==
    /\ status \in {"none", "rejected"}
    /\ deploys < MaxDeploys
    /\ params' = p
    /\ deploys' = deploys + 1
    /\ status' = IF Unresolved(p) = {} THEN "in_progress" ELSE "rejected"
    /\ fresh' = (~registry.exists /\ logGroups = {})
    /\ UNCHANGED <<stack, registry, logGroups, outputs, deletes, event, build, svc, packet, received>>

\* The engine creates a resource whose references are all created.
CreateResource(r, dns) ==
    /\ status = "in_progress"
    /\ Ready(r)
    /\ ~NameTaken(r)
    /\ CanStabilise(r)
    /\ stack' = (r :> Physical(r, params, dns)) @@ stack
    /\ registry' = IF r = "EcrRepo" THEN [exists |-> TRUE, images |-> {}] ELSE registry
    /\ logGroups' = CASE r = "AppLogGroup" -> logGroups \cup {logGroup.logGroupName}
                       [] r = "CodeBuildLogGroup" -> logGroups \cup {cbLogGroup.logGroupName}
                       [] OTHER -> logGroups
    /\ svc' = IF r = "Service"
              THEN [exists |-> TRUE, target |-> 1, latest |-> 1, steady |-> 1,
                    old |-> 0, oldPending |-> 0,
                    cur |-> service.desiredCount, pending |-> 0]
              ELSE svc
    /\ UNCHANGED <<params, status, outputs, fresh, deploys, deletes, event, build, packet, received>>

\* A resource whose fixed name is taken cannot be created: the deployment fails.
CreateFails(r) ==
    /\ status = "in_progress"
    /\ Ready(r)
    /\ NameTaken(r)
    /\ status' = "failed"
    /\ UNCHANGED <<params, stack, registry, logGroups, outputs, fresh, deploys, deletes,
                   event, build, svc, packet, received>>

\* The service never becomes steady without its image: its creation times out.
ServiceTimeout ==
    /\ status = "in_progress"
    /\ Ready("Service")
    /\ ~CanStabilise("Service")
    /\ status' = "failed"
    /\ UNCHANGED <<params, stack, registry, logGroups, outputs, fresh, deploys, deletes,
                   event, build, svc, packet, received>>

\* Every declared resource is created: the deployment completes with its outputs.
Complete ==
    /\ status = "in_progress"
    /\ created = Resources
    /\ status' = "complete"
    /\ outputs' = Outputs(stack)
    /\ UNCHANGED <<params, stack, registry, logGroups, fresh, deploys, deletes,
                   event, build, svc, packet, received>>

\* What is left in the account of the resources a deletion removes.
Retained(s) == {r \in DOMAIN s : RemovalPolicy(r) = "RETAIN"}

\* `cdk destroy`: every created resource is removed, unless its policy retains it.
DeleteStack ==
    /\ status \in {"failed", "complete"}
    /\ build.pc \in {"idle", "succeeded", "failed"}
    /\ status' = "none"
    /\ params' = NoParams
    /\ stack' = <<>>
    /\ outputs' = NoOutputs
    /\ deletes' = deletes + 1
    /\ registry' = IF "EcrRepo" \in created /\ "EcrRepo" \notin Retained(stack)
                   THEN [exists |-> FALSE, images |-> {}]
                   ELSE registry
    /\ logGroups' = logGroups \
          {Physical(r, params, "").logGroupName :
             r \in (created \cap {"AppLogGroup", "CodeBuildLogGroup"}) \ Retained(stack)}
    /\ svc' = NoService
    /\ UNCHANGED <<fresh, deploys, event, build, packet, received>>

\* Someone with credentials for the account pushes an image to the registry by
\* hand (no build run is involved).
PushImage(tag) ==
    /\ registry.exists
    /\ tag \notin registry.images
    /\ registry' = [registry EXCEPT !.images = @ \cup {tag}]
    /\ UNCHANGED <<params, status, stack, logGroups, outputs, fresh, deploys, deletes,
                   event, build, svc, packet, received>>

\* ------------------------------------------------------------- permissions
\* A statement's resource pattern covers a resource: "*" covers everything, a
\* pattern ending in ":*" everything that extends its prefix.
Matches(pattern, res) ==
    \/ pattern = <<"*">>
    \/ pattern = res
    \/ /\ Len(pattern) > 0
       /\ pattern[Len(pattern)] = ":*"
       /\ Len(res) >= Len(pattern)
       /\ SubSeq(res, 1, Len(pattern) - 1) = SubSeq(pattern, 1, Len(pattern) - 1)

\* The policy allows the request: some statement lists the action and covers
\* the resource (the policy has no Deny statement).
Allowed(statements, req) ==
    \E st \in statements :
        /\ req.action \in st.actions
        /\ \E pat \in st.resources : Matches(pat, req.resource)

BuildPhases == <<"source", "login", "push", "describe", "register", "update">>

\* The requests a build run of the project makes in each phase, with the
\* resources the project's environment variables and source name. The action
\* that uses a connection belongs to the service its ARN names.
BuildRequests(s, phase) ==
    CASE phase = "source" ->
            {[action |-> ArnService(s["AppBuild"].source.auth.resource) \o ":UseConnection",
              resource |-> s["AppBuild"].source.auth.resource],
             [action |-> "logs:CreateLogStream",
              resource |-> Append(logGroupArn(cbLogGroup), ":log-stream:build")],
             [action |-> "logs:PutLogEvents",
              resource |-> Append(logGroupArn(cbLogGroup), ":log-stream:build")]}
      [] phase = "login" ->
            {[action |-> "ecr:GetAuthorizationToken", resource |-> <<"*">>]}
      [] phase = "push" ->
            {[action |-> a, resource |-> s["EcrRepo"].arn] :
                a \in {"ecr:BatchCheckLayerAvailability", "ecr:GetDownloadUrlForLayer",
                       "ecr:BatchGetImage", "ecr:InitiateLayerUpload",
                       "ecr:UploadLayerPart", "ecr:CompleteLayerUpload", "ecr:PutImage"}}
      [] phase = "describe" ->
            {[action |-> "ecs:DescribeClusters",
              resource |-> <<"arn:aws:ecs:", Region, Account, "cluster/",
                             s["AppBuild"].environmentVariables.ECS_CLUSTER_NAME>>],
             [action |-> "ecs:DescribeServices",
              resource |-> <<"arn:aws:ecs:", Region, Account, "service/",
                             s["AppBuild"].environmentVariables.ECS_SERVICE_NAME>>],
             [action |-> "ecs:DescribeTaskDefinition", resource |-> <<"*">>]}
      [] phase = "register" ->
            {[action |-> "ecs:RegisterTaskDefinition", resource |-> <<"*">>],
             [action |-> "iam:PassRole", resource |-> s["TaskDef"].taskRoleArn],
             [action |-> "iam:PassRole", resource |-> s["TaskDef"].executionRoleArn]}
      [] phase = "update" ->
            {[action |-> "ecs:UpdateService",
              resource |-> <<"arn:aws:ecs:", Region, Account, "service/",
                             s["AppBuild"].environmentVariables.ECS_SERVICE_NAME>>]}

\* The build role's policy allows everything the phase does.
Permitted(s, phase) ==
    \A req \in BuildRequests(s, phase) : Allowed(s["CodeBuildRole"].statements, req)

\* ------------------------------------------------------------------ webhook
EventActions == {"PUSH", "PULL_REQUEST_CREATED"}

HeadRefs ==
    {RefsHeads \o b : b \in BranchNames} \cup {RefsTags \o b : b \in {Main, <<"v">>}}

Events == [action : EventActions, headRef : HeadRefs]

NoEvent == [action |-> "none", headRef |-> <<>>, started |-> FALSE]

\* One pattern character against one text character: "." is the regular
\* expression's wildcard, every other character of the alphabet stands for itself.
CharMatches(pc, c) == pc = "." \/ pc = c

\* The pattern's body matches the text at position i.
MatchAt(body, text, i) ==
    /\ i + Len(body) - 1 <= Len(text)
    /\ \A k \in 1..Len(body) : CharMatches(body[k], text[i + k - 1])

\* Regular-expression search of the pattern in the text.
RegexMatches(pat, text) ==
    \E i \in 1..(Len(text) + 1) :
        /\ MatchAt(pat.body, text, i)
        /\ pat.anchoredStart => i = 1
        /\ pat.anchoredEnd => i + Len(pat.body) - 1 = Len(text)

\* The event passes some filter group of the project's webhook.
Triggers(filters, e) ==
    \E f \in filters : e.action = f.eventAction /\ RegexMatches(f.headRef, e.headRef)

NoBuild == [pc |-> "idle", runs |-> 0, denied |-> "none"]

BuildRunning == build.pc \in {"source", "login", "push", "describe", "register", "update"}

\* The source host delivers an event to the project's webhook; an event that
\* passes the filters starts a build run of the source branch.
Webhook(e) ==
    /\ "AppBuild" \in created
    /\ ~BuildRunning
    /\ build.runs < MaxBuilds
    /\ LET starts == Triggers(stack["AppBuild"].source.webhookFilters, e)
       IN  /\ event' = [action |-> e.action, headRef |-> e.headRef, started |-> starts]
           /\ build' = IF starts
                       THEN [pc |-> "source", runs |-> build.runs + 1, denied |-> "none"]
                       ELSE build
    /\ UNCHANGED <<params, status, stack, registry, logGroups, outputs, fresh, deploys,
                   deletes, svc, packet, received>>

\* The build run after a phase: the next phase, or failed when the role's
\* policy denies a request of the phase.
AfterPhase(phase, next) ==
    IF Permitted(stack, phase)
    THEN [build EXCEPT !.pc = next]
    ELSE [build EXCEPT !.pc = "failed", !.denied = phase]

\* The run fetches the source through the connection and opens its log stream.
Checkout ==
    /\ build.pc = "source"
    /\ build' = AfterPhase("source", "login")
    /\ UNCHANGED <<params, status, stack, registry, logGroups, outputs, fresh, deploys,
                   deletes, event, svc, packet, received>>

\* The run logs in to the registry.
EcrLogin ==
    /\ build.pc = "login"
    /\ build' = AfterPhase("login", "push")
    /\ UNCHANGED <<params, status, stack, registry, logGroups, outputs, fresh, deploys,
                   deletes, event, svc, packet, received>>

\* The run builds the image and pushes it under the container's tag.
PushBuiltImage ==
    /\ build.pc = "push"
    /\ build' = AfterPhase("push", "describe")
    /\ registry' = IF Permitted(stack, "push")
                   THEN [registry EXCEPT !.images = @ \cup {container.image.tag}]
                   ELSE registry
    /\ UNCHANGED <<params, status, stack, logGroups, outputs, fresh, deploys,
                   deletes, event, svc, packet, received>>

\* The run reads the cluster, the service and the current task definition.
DescribeEcs ==
    /\ build.pc = "describe"
    /\ build' = AfterPhase("describe", "register")
    /\ UNCHANGED <<params, status, stack, registry, logGroups, outputs, fresh, deploys,
                   deletes, event, svc, packet, received>>

\* The run registers a new revision of the task definition.
RegisterTaskDefinition ==
    /\ build.pc = "register"
    /\ build' = AfterPhase("register", "update")
    /\ svc' = IF Permitted(stack, "register")
              THEN [svc EXCEPT !.latest = @ + 1]
              ELSE svc
    /\ UNCHANGED <<params, status, stack, registry, logGroups, outputs, fresh, deploys,
                   deletes, event, packet, received>>

\* The run points the service at the new revision: a rolling update starts and
\* the tasks of the earlier revisions become old.
UpdateService ==
    /\ build.pc = "update"
    /\ build' = AfterPhase("update", "succeeded")
    /\ svc' = IF Permitted(stack, "update")
              THEN [svc EXCEPT !.target = svc.latest,
                               !.old = svc.old + svc.cur,
                               !.oldPending = svc.oldPending + svc.pending,
                               !.cur = 0, !.pending = 0]
              ELSE svc
    /\ UNCHANGED <<params, status, stack, registry, logGroups, outputs, fresh, deploys,
                   deletes, event, packet, received>>

\* ----------------------------------------------------------- rolling update
CeilDiv(a, b) == (a + b - 1) \div b

\* The managed rolling update keeps at least minHealthyPercent of desiredCount
\* (rounded up) healthy and at most maxHealthyPercent (rounded down) running.
MinHealthy == CeilDiv(service.desiredCount * service.minHealthyPercent, 100)
MaxTasks == (service.desiredCount * service.maxHealthyPercent) \div 100

Total(s) == s.old + s.oldPending + s.cur + s.pending

\* The deployment is steady once only the target revision's tasks are left.
Settle(s) ==
    IF s.old = 0 /\ s.oldPending = 0 /\ s.pending = 0 /\ s.cur = service.desiredCount
    THEN [s EXCEPT !.steady = s.target]
    ELSE s

\* The scheduler starts a task of the target revision.
LaunchTask ==
    /\ svc.exists
    /\ svc.cur + svc.pending < service.desiredCount
    /\ Total(svc) < MaxTasks
    /\ svc' = [svc EXCEPT !.pending = @ + 1]
    /\ UNCHANGED <<params, status, stack, registry, logGroups, outputs, fresh, deploys,
                   deletes, event, build, packet, received>>

\* A starting task passes the load balancer's health check.
TaskHealthy ==
    /\ svc.exists
    /\ svc.pending > 0
    /\ svc' = Settle([svc EXCEPT !.pending = @ - 1, !.cur = @ + 1])
    /\ UNCHANGED <<params, status, stack, registry, logGroups, outputs, fresh, deploys,
                   deletes, event, build, packet, received>>

\* A starting task of the target revision fails (it exits or never gets healthy)
\* and is stopped. Only a service that declares a circuit breaker with
\* rollback goes back to its last steady revision.
TaskFails ==
    /\ svc.exists
    /\ svc.pending > 0
    /\ svc' = IF service.circuitBreakerRollback /\ svc.steady # svc.target
              THEN [svc EXCEPT !.pending = @ - 1, !.target = svc.steady,
                               !.cur = svc.old, !.old = 0]
              ELSE [svc EXCEPT !.pending = @ - 1]
    /\ UNCHANGED <<params, status, stack, registry, logGroups, outputs, fresh, deploys,
                   deletes, event, build, packet, received>>

\* The scheduler stops a healthy task of an earlier revision, if enough healthy
\* tasks are left without it.
StopOld ==
    /\ svc.exists
    /\ svc.old > 0
    /\ svc.old + svc.cur - 1 >= MinHealthy
    /\ svc' = Settle([svc EXCEPT !.old = @ - 1])
    /\ UNCHANGED <<params, status, stack, registry, logGroups, outputs, fresh, deploys,
                   deletes, event, build, packet, received>>

\* The scheduler stops a task of an earlier revision that was still starting.
StopOldPending ==
    /\ svc.exists
    /\ svc.oldPending > 0
    /\ svc' = Settle([svc EXCEPT !.oldPending = @ - 1])
    /\ UNCHANGED <<params, status, stack, registry, logGroups, outputs, fresh, deploys,
                   deletes, event, build, packet, received>>

\* ------------------------------------------------------------------ network
Ports == {22, 80, 443, 8501}

\* Who sends: hosts on the Internet and a host inside the VPC that belongs to
\* neither of the stack's security groups.
Origins == {"internet-1", "internet-2", "vpc-host"}

Groups(origin) == IF origin = "vpc-host" THEN {"OtherSg"} ELSE {}

NoPacket == [at |-> "none", origin |-> "none", groups |-> {}, to |-> "none",
             port |-> 0, via |-> "none"]

\* An ingress rule's peer covers the sender: any IPv4 address, or a member of
\* the peer security group.
PeerMatches(peer, groups) == peer = "0.0.0.0/0" \/ peer \in groups

\* The security groups of the destination admit the packet.
Admits(s, pkt) ==
    LET sgs == IF pkt.to = "Alb" THEN {s["Alb"].securityGroup}
               ELSE s["Service"].securityGroups
    IN  \E g \in sgs : \E rule \in s[g].ingress :
            /\ rule.protocol = "tcp"
            /\ rule.port = pkt.port
            /\ PeerMatches(rule.peer, pkt.groups)

\* A host sends a TCP packet to the load balancer or to a task's public address.
Send(origin, to, port) ==
    /\ status = "complete"
    /\ packet.at = "none"
    /\ to = "Task" => stack["Service"].assignPublicIp
    /\ packet' = [at |-> "wire", origin |-> origin, groups |-> Groups(origin),
                  to |-> to, port |-> port, via |-> "direct"]
    /\ UNCHANGED <<params, status, stack, registry, logGroups, outputs, fresh, deploys,
                   deletes, event, build, svc, received>>

\* The destination's security groups admit or drop the packet.
Filter ==
    /\ packet.at = "wire"
    /\ packet' = [packet EXCEPT !.at = IF Admits(stack, packet) THEN packet.to
                                       ELSE "dropped"]
    /\ UNCHANGED <<params, status, stack, registry, logGroups, outputs, fresh, deploys,
                   deletes, event, build, svc, received>>

\* The load balancer's listener forwards what arrives on its port to the
\* target group's port on a task; the balancer sends as a member of its group.
Forward ==
    /\ packet.at = "Alb"
    /\ packet' = IF packet.port = stack["Http"].port
                 THEN [packet EXCEPT !.at = "wire", !.to = "Task", !.via = "Alb",
                                     !.groups = {stack["Alb"].securityGroup},
                                     !.port = stack[stack["Http"].forwardTo].port]
                 ELSE [packet EXCEPT !.at = "dropped"]
    /\ UNCHANGED <<params, status, stack, registry, logGroups, outputs, fresh, deploys,
                   deletes, event, build, svc, received>>

\* A packet that reached a task is received by the container if the container
\* listens on its port, and refused otherwise.
Deliver ==
    /\ packet.at = "Task"
    /\ packet' = NoPacket
    /\ received' = IF packet.port = stack["TaskDef"].container.containerPort
                   THEN received \cup {[origin |-> packet.origin, via |-> packet.via,
                                         port |-> packet.port]}
                   ELSE received
    /\ UNCHANGED <<params, status, stack, registry, logGroups, outputs, fresh, deploys,
                   deletes, event, build, svc>>

\* A dropped packet is gone.
Drop ==
    /\ packet.at = "dropped"
    /\ packet' = NoPacket
    /\ UNCHANGED <<params, status, stack, registry, logGroups, outputs, fresh, deploys,
                   deletes, event, build, svc, received>>

\* ----------------------------------------------------------- specifications
\* The account before the first deployment.
Init ==
    /\ params = NoParams
    /\ status = "none"
    /\ stack = <<>>
    /\ registry = [exists |-> FALSE, images |-> {}]
    /\ logGroups = {}
    /\ outputs = NoOutputs
    /\ fresh = TRUE
    /\ deploys = 0
    /\ deletes = 0
    /\ event = NoEvent
    /\ build = NoBuild
    /\ svc = NoService
    /\ packet = NoPacket
    /\ received = {}

\* The branch values the deployments of Spec pass (README.md 21).
DeployBranches == {Main}

DeployNext ==
    \/ \E r \in Resources, dns \in AlbDnsNames : CreateResource(r, dns)
    \/ \E r \in Resources : CreateFails(r)
    \/ ServiceTimeout
    \/ Complete
    \/ DeleteStack
    \/ \E t \in ImageTags : PushImage(t)

\* Deployments and deletions of the stack, under every way of supplying the
\* parameters.
Next ==
    \/ \E p \in Supplied(DeployBranches) : StartDeploy(p)
    \/ DeployNext

Spec == Init /\ [][Next]_vars

PipelineNext ==
    \/ \E e \in Events : Webhook(e)
    \/ Checkout
    \/ EcrLogin
    \/ PushBuiltImage
    \/ DescribeEcs
    \/ RegisterTaskDefinition
    \/ UpdateService
    \/ LaunchTask
    \/ TaskHealthy
    \/ TaskFails
    \/ StopOld
    \/ StopOldPending

\* The stack as a completed deployment with parameters p leaves it.
Deployed(p, dns) ==
    /\ params = p
    /\ status = "complete"
    /\ stack = [r \in Resources |-> Physical(r, p, dns)]
    /\ registry = [exists |-> TRUE, images |-> ImageTags]
    /\ logGroups = {logGroup.logGroupName, cbLogGroup.logGroupName}
    /\ outputs = Outputs(stack)
    /\ fresh = TRUE
    /\ deploys = 1
    /\ deletes = 0
    /\ event = NoEvent
    /\ build = NoBuild
    /\ svc = [exists |-> TRUE, target |-> 1, latest |-> 1, steady |-> 1,
              old |-> 0, oldPending |-> 0, cur |-> service.desiredCount, pending |-> 0]
    /\ packet = NoPacket
    /\ received = {}

\* The build pipeline and the service of a deployed stack, for every accepted
\* choice of parameters.
PipelineInit ==
    \E p \in Supplied(BranchNames), dns \in AlbDnsNames :
        /\ Unresolved(p) = {}
        /\ p.GitHubOwner = Omitted /\ p.GitHubRepo = Omitted
        /\ Deployed(p, dns)

PipelineSpec == PipelineInit /\ [][PipelineNext]_vars

\* The parameters of the documented deployment (README.md 16-21).
ReadmeParams ==
    [ConnectionArn |-> <<"arn:aws:", "codestar-connections",
                         ":ap-northeast-1:111122223333:connection/", "c-1">>,
     GitHubOwner |-> <<"acme">>, GitHubRepo |-> <<"lvp-example">>,
     GitHubBranch |-> Main]

NetNext ==
    \/ \E o \in Origins, to \in {"Alb", "Task"}, port \in Ports : Send(o, to, port)
    \/ Filter
    \/ Forward
    \/ Deliver
    \/ Drop

NetInit == \E dns \in AlbDnsNames : Deployed(ReadmeParams, dns)

\* Traffic to a deployed stack.
NetSpec == NetInit /\ [][NetNext]_vars

\* A deployment that supplies ConnectionArn and leaves the rest at the defaults.
DefaultParams == {p \in Supplied({}) : p.ConnectionArn # Omitted /\ p.GitHubOwner = Omitted
                                       /\ p.GitHubRepo = Omitted}

SystemNext ==
    \/ \E p \in DefaultParams : StartDeploy(p)
    \/ DeployNext
    \/ PipelineNext

\* The whole system: deployments, build runs and rolling updates.
SystemSpec == Init /\ [][SystemNext]_vars

\* ------------------------------------------------------------------- claims
AllCreated ==
    /\ status = "complete"
    /\ created = Resources
    /\ svc.exists /\ svc.old + svc.cur >= service.desiredCount
    /\ container.image.tag \in registry.images

\* C1: a deployment that starts with none of the stack's resources present and
\* supplies ConnectionArn (the rest at the defaults) resolves: it never ends in
\* failure short of the state in which every declared resource is created and
\* the service runs its desired count of tasks of the image tagged 'latest'.
C1_DeploymentResolves ==
    /\ (fresh /\ status = "failed") => FALSE
    /\ (fresh /\ status = "complete") => AllCreated

\* C2: once the build project and its role exist, the role's policy allows
\* every request a build run makes, in every phase of the run.
C2_PermissionsSufficient ==
    {"AppBuild", "CodeBuildRole", "EcrRepo", "TaskDef"} \subseteq created =>
        \A i \in 1..Len(BuildPhases) : Permitted(stack, BuildPhases[i])

ConnectionTypes == {"codeconnections.Connection", "codestarconnections.Connection"}

ConnectionActions ==
    {svcName \o ":" \o a :
        svcName \in {"codeconnections", "codestar-connections"},
        a \in {"UseConnection", "GetConnection", "GetConnectionToken", "PassConnection"}}

\* C3: the stack creates no connection resource, and both uses of a connection
\* (the project's Source.Auth resource, the resources of the role's connection
\* statement) hold exactly the value of the ConnectionArn parameter.
C3_ConnectionReferencedOnly ==
    /\ \A r \in created : stack[r].type \notin ConnectionTypes
    /\ "AppBuild" \in created =>
            /\ stack["AppBuild"].source.auth.resource = params.ConnectionArn
            /\ params.ConnectionArn \in ConnectionArns
    /\ "CodeBuildRole" \in created =>
            /\ \E st \in stack["CodeBuildRole"].statements :
                    st.actions \cap ConnectionActions # {}
            /\ \A st \in stack["CodeBuildRole"].statements :
                    st.actions \cap ConnectionActions # {} =>
                        st.resources = {params.ConnectionArn}

C3_Witness ==
    /\ {"AppBuild", "CodeBuildRole"} \subseteq created
    /\ ArnService(params.ConnectionArn) = "codestar-connections"

\* C4: the stack declares exactly the four parameters of the documented deploy
\* command, only ConnectionArn has no default, and a deployment is rejected for
\* an unresolved parameter exactly when it leaves ConnectionArn out.
C4_FourParameters ==
    /\ ParamNames = {"ConnectionArn", "GitHubOwner", "GitHubRepo", "GitHubBranch"}
    /\ ParamNames = ReadmeParameters
    /\ {n \in ParamNames : ~Parameters[n].hasDefault} = {"ConnectionArn"}
    /\ status = "rejected" =>
            params.ConnectionArn = Omitted /\ Unresolved(params) = {"ConnectionArn"}
    /\ status \in {"in_progress", "failed", "complete"} =>
            params.ConnectionArn # Omitted /\ Unresolved(params) = {}
    /\ (deploys > 0 /\ status = "none") => deletes > 0

C4_Witness ==
    /\ status = "in_progress"
    /\ params.ConnectionArn # Omitted
    /\ params.GitHubOwner = Omitted
    /\ params.GitHubRepo = Omitted
    /\ params.GitHubBranch = Omitted

\* C5: a completed deployment has exactly the five outputs, each the attribute
\* of the resource it names.
C5_Outputs ==
    status = "complete" =>
        /\ DOMAIN outputs = {"AlbDns", "EcrRepoUri", "CodeBuildProjectName",
                             "EcsClusterName", "EcsServiceName"}
        /\ outputs.AlbDns = <<stack["Alb"].dnsName>>
        /\ stack["Alb"].scheme = "internet-facing"
        /\ stack["Alb"].dnsName \in AlbDnsNames
        /\ outputs.EcrRepoUri = stack["EcrRepo"].repositoryUri
        /\ outputs.CodeBuildProjectName = <<stack["AppBuild"].projectName>>
        /\ outputs.EcsClusterName = <<stack["Cluster"].clusterName>>
        /\ outputs.EcsServiceName = <<stack["Service"].serviceName>>

C5_Witness == status = "complete" /\ outputs # NoOutputs

\* C6: the names handed to the build project as environment variables are the
\* names of the registry the task definition's image comes from, of the cluster
\* the service runs in, of the service, of the family of the service's task
\* definition and of the container that task definition declares.
C6_BuildFeedsService ==
    "AppBuild" \in created =>
        LET env == stack["AppBuild"].environmentVariables
        IN  /\ env.IMAGE_REPO_NAME = stack["TaskDef"].container.image.repository
            /\ env.IMAGE_REPO_NAME = stack["EcrRepo"].repositoryName
            /\ env.ECS_CLUSTER_NAME = stack["Service"].cluster
            /\ env.ECS_CLUSTER_NAME = stack["Cluster"].clusterName
            /\ env.ECS_SERVICE_NAME = stack["Service"].serviceName
            /\ env.TASK_FAMILY = stack["Service"].family
            /\ env.TASK_FAMILY = stack["TaskDef"].family
            /\ env.CONTAINER_NAME = stack["TaskDef"].container.containerName

C6_Witness == "AppBuild" \in created /\ status = "in_progress"

\* C7: during every update of the service at least 1 task is healthy and at
\* most 2 tasks exist, and the revision the service deploys changes only when
\* a build run updates the service: a failed update is never rolled back.
C7_RollingUpdateNoRollback ==
    /\ [](svc.exists => (svc.old + svc.cur >= 1 /\ Total(svc) <= 2))
    /\ [][svc'.target # svc.target =>
            (build.pc = "update" /\ svc'.target = svc.latest /\ svc'.target > svc.target)]_vars

C7_Witness ==
    /\ svc.target = 2 /\ svc.steady = 1
    /\ svc.old = 1 /\ svc.pending = 1
    /\ build.pc = "succeeded"

\* C8: an event starts a build exactly when it is a PUSH whose head ref is
\* refs/heads/<GitHubBranch>, GitHubBranch being the build's source branch.
C8_WebhookExactBranch ==
    /\ "AppBuild" \in created =>
            stack["AppBuild"].source.branchOrRef = Resolved(params, "GitHubBranch")
    /\ event.action # "none" =>
            (event.started <=>
                (/\ event.action = "PUSH"
                 /\ event.headRef = RefsHeads \o Resolved(params, "GitHubBranch")))

\* C9: the balancer's group admits TCP 80 from every sender, a task is reached
\* only from the balancer and only on port 8501, and everything the container
\* receives came through the balancer's port-80 listener to port 8501.
C9_TrafficOnlyThroughAlb ==
    /\ \A r \in received : r.via = "Alb" /\ r.port = 8501
    /\ packet.at = "Task" =>
            (packet.via = "Alb" /\ packet.port = 8501 /\ packet.groups = {"AlbSg"})
    /\ (packet.at = "dropped" /\ packet.to = "Alb") => packet.port # 80
    /\ packet.at = "Alb" => packet.port = 80
    /\ (packet.at = "wire" /\ packet.via = "Alb") =>
            packet.port = stack["TaskDef"].container.containerPort

C9_Witness ==
    /\ \E r \in received : r.origin = "internet-1" /\ r.via = "Alb"
    /\ packet.at = "dropped" /\ packet.to = "Task" /\ packet.port = 8501
    /\ packet.origin = "internet-2"

\* C10: a deletion of the stack leaves the registry and its images in the
\* account and removes both log groups, so every deployment that follows a
\* deletion finds the registry present.
C10_RegistryRetained ==
    /\ [](deletes > 0 => registry.exists)
    /\ []((deletes > 0 /\ status = "none") => logGroups = {})
    /\ []((deletes > 0 /\ status \in {"in_progress", "failed"}) => ~fresh)
    /\ [][deletes' # deletes =>
            (registry.exists /\ registry' = registry /\ logGroups' = {})]_vars

C10_Witness ==
    /\ deletes > 0
    /\ status = "in_progress"
    /\ registry.images = ImageTags
    /\ logGroups # {}

====
